---- MODULE Spec2Model ----
(***************************************************************************)
(* Product Hunt scraper: the products table, the read functions of the     *)
(* two front ends (supabase.ts, page.tsx), the paginated page (Home) and   *)
(* the /api/scrape route with the scraper subprocesses it starts.          *)
(***************************************************************************)
EXTENDS Integers, Sequences, FiniteSets, Bags, TLC

VARIABLES
    table,          \* the rows of the products table (README.md schema)
    call,           \* the call of a read function about to run
    result,         \* the last call of a read function and what it returned
    fetched,        \* the pages fetched so far by a sweep over the table
    requests,       \* the POSTs to /api/scrape whose connection is open
    responses,      \* the responses the route has returned
    procs,          \* the scraper subprocesses spawned, in spawn order
    nextRid,        \* the number of the next request
    products,       \* Home: the rows displayed
    startDate,      \* Home: the start date input
    endDate,        \* Home: the end date input
    isLoading,      \* Home: a scrape request is under way
    message,        \* Home: the message shown
    page,           \* Home: the current page number
    totalPages,     \* Home: the number of pages
    showPageInput,  \* Home: the page input is shown
    loads,          \* Home: the loadProducts calls awaiting their rows (a bag of page numbers)
    counts,         \* Home: the fetchTotalProductCount calls awaiting their count
    timers          \* Home: the pending setTimeout callbacks

queryVars == <<call, result, fetched>>
serverVars == <<requests, responses, procs, nextRid>>
scrapeVars == <<startDate, endDate, isLoading, message, timers>>
navVars == <<products, page, totalPages, showPageInput, loads, counts>>
homeVars == <<products, startDate, endDate, isLoading, message, page, totalPages,
              showPageInput, loads, counts, timers>>
vars == <<table, call, result, fetched, requests, responses, procs, nextRid,
          products, startDate, endDate, isLoading, message, page, totalPages,
          showPageInput, loads, counts, timers>>

(***************************************************************************)
(* Values.                                                                 *)
(***************************************************************************)
NoValue == "undefined"          \* JS undefined / null, SQL NULL
DateSeq == <<"2024-01-01", "2024-01-02">>     \* the dates, in calendar order
Dates == {DateSeq[i] : i \in 1..Len(DateSeq)}

MaxIds == 3                     \* product ids 1..MaxIds in the small tables
MaxVotes == 1                   \* upvotes 0..MaxVotes in the small tables
MaxLimit == 3                   \* limits 0..MaxLimit passed to getTopProducts

Ids == 1..MaxIds

\* Text columns are sequences of characters; the texts of a product are fixed
\* by its id (the external API's catalogue).
Chars == {"a", "b", "A", "B"}
NameOf(i) == IF i % 3 = 1 THEN <<"A", "b">> ELSE IF i % 3 = 2 THEN <<"b", "a">> ELSE <<"B">>
TaglineOf(i) == IF i % 2 = 0 THEN <<"a", "a">> ELSE <<"b">>
NoText == <<NoValue>>           \* a text column that is NULL
DescriptionOf(i) == IF i % 3 = 0 THEN NoText ELSE <<"a", "B", "a">>

\* interface Product (the columns the code reads)
Product(i, u, d) ==
    [id |-> i, name |-> NameOf(i), tagline |-> TaglineOf(i),
     description |-> DescriptionOf(i), upvotes |-> u, launch_date |-> d]

\* id is the primary key: a table holds at most one row per id.
PrimaryKey(tbl) == \A r, q \in tbl : r.id = q.id => r = q

Min(a, b) == IF a < b THEN a ELSE b
Max(a, b) == IF a > b THEN a ELSE b
SeqToSet(s) == {s[i] : i \in 1..Len(s)}

(***************************************************************************)
(* The query builder of the database client.                               *)
(***************************************************************************)
\* .order('upvotes', { ascending: false }): every sequence of the rows in
\* non-increasing upvotes order; the order among equal upvotes is the
\* database's choice.
UpvotesBits == 8                \* upvotes are below 2^UpvotesBits

RECURSIVE Orderings(_)
Orderings(rows) ==
    IF rows = {} THEN {<<>>}
    ELSE UNION {{<<r>> \o rest : rest \in Orderings(rows \ {r})} : r \in rows}

\* The rows with upvotes in lo..hi, highest first: those above the middle,
\* then the others; rows with the same upvotes in every order.
RECURSIVE OrderBetween(_, _, _)
OrderBetween(rows, lo, hi) ==
    IF lo = hi \/ Cardinality(rows) <= 1 THEN Orderings(rows)
    ELSE LET mid == (lo + hi) \div 2
             above == {r \in rows : r.upvotes > mid}
         IN {a \o b : a \in OrderBetween(above, mid + 1, hi),
                      b \in OrderBetween(rows \ above, lo, mid)}

OrderByUpvotesDesc(rows) == OrderBetween(rows, 0, 2^UpvotesBits - 1)

\* .limit(n): the first n rows
Limit(s, n) == SubSeq(s, 1, Min(n, Len(s)))

\* .range(from, to): the rows at offsets from..to (0-based, inclusive)
Range(s, from, to) == SubSeq(s, from + 1, Min(to + 1, Len(s)))

(***************************************************************************)
(* supabase.ts: each function is the set of values one call may return,    *)
(* given whether the backend reports an error. The client answers          *)
(* {data, error} with data null exactly when error is set, so "data || []" *)
(* is [] on the error branch and data otherwise.                           *)
(***************************************************************************)
getTopProducts_Ascending(tbl, limit, error) ==
    IF error THEN {<<>>}
    ELSE {Limit([i \in 1..Len(o) |-> o[Len(o) + 1 - i]], limit) : o \in OrderByUpvotesDesc(tbl)}

getTopProducts(tbl, limit, error) ==
    IF error THEN {<<>>}
    ELSE {Limit(o, limit) : o \in OrderByUpvotesDesc(tbl)}

\* .single() reports an error unless exactly one row matches.
getProductById(tbl, id, error) ==
    LET rows == {r \in tbl : r.id = id}
    IN IF error \/ Cardinality(rows) # 1 THEN {NoValue} ELSE rows

getProductsByDate_NoFilter(tbl, date, error) ==
    IF error THEN {<<>>} ELSE {o : o \in OrderByUpvotesDesc(tbl)}

getProductsByDate(tbl, date, error) ==
    IF error THEN {<<>>}
    ELSE {o : o \in OrderByUpvotesDesc({r \in tbl : r.launch_date = date})}

\* ilike: case-insensitive pattern match; '%q%' matches a text containing q.
Lower(c) == IF c = "A" THEN "a" ELSE IF c = "B" THEN "b" ELSE c
LowerText(t) == [i \in 1..Len(t) |-> Lower(t[i])]
ILike(text, q) ==
    /\ text # NoText
    /\ \E i \in 0..(Len(text) - Len(q)) :
          LowerText(SubSeq(text, i + 1, i + Len(q))) = LowerText(q)

SearchLimit == 20

searchProducts(tbl, query, error) ==
    IF error THEN {<<>>}
    ELSE {Limit(o, SearchLimit) : o \in OrderByUpvotesDesc(
              {r \in tbl : \/ ILike(r.name, query)
                           \/ ILike(r.tagline, query)
                           \/ ILike(r.description, query)})}

(***************************************************************************)
(* page.tsx: the reads of the paginated page.                              *)
(***************************************************************************)
PAGE_SIZE == 20

fetchProductsPaginated_OffByOne(tbl, pageNum, pageSize, error) ==
    LET from == (pageNum - 1) * pageSize
        to == from + pageSize
    IN IF error THEN {<<>>}
       ELSE {Range(o, from, to) : o \in OrderByUpvotesDesc(tbl)}

fetchProductsPaginated(tbl, pageNum, pageSize, error) ==
    LET from == (pageNum - 1) * pageSize
        to == from + pageSize - 1
    IN IF error THEN {<<>>}
       ELSE {Range(o, from, to) : o \in OrderByUpvotesDesc(tbl)}

\* count || 0
fetchTotalProductCount_IgnoresError(tbl, error) == Cardinality(tbl)

fetchTotalProductCount(tbl, error) == IF error THEN 0 ELSE Cardinality(tbl)

\* Math.ceil(a / b) for a >= 0, b > 0
Ceil(a, b) == (a + b - 1) \div b

\* Math.max(1, Math.ceil(count / PAGE_SIZE))
TotalPagesFor_Floor(count) == Max(1, count \div PAGE_SIZE)

TotalPagesFor(count) == Max(1, Ceil(count, PAGE_SIZE))

(***************************************************************************)
(* Tables.                                                                 *)
(***************************************************************************)
\* The small tables: any rows over a few ids, upvotes and dates.
SmallTables ==
    UNION {{{Product(i, f[i][1], f[i][2]) : i \in S} :
               f \in [S -> (0..MaxVotes) \X (Dates \cup {NoValue})]} : S \in SUBSET Ids}

\* The stored tables of the paginated page: n rows, upvotes all different
\* ("distinct") or with some rows sharing their upvotes ("ties").
MaxFullPages == 2
TieEvery == 10
SeedVotes(kind, i) == IF kind = "ties" /\ i % TieEvery = 0 THEN i - 1 ELSE i
SeedDate(i) == IF i % 3 = 0 THEN NoValue ELSE IF i % 3 = 1 THEN "2024-01-01" ELSE "2024-01-02"
SeedTable(n, kind) == {Product(i, SeedVotes(kind, i), SeedDate(i)) : i \in 1..n}
SeedSizes == {k * PAGE_SIZE + j : k \in 0..MaxFullPages, j \in 0..1}
SeedTables == {SeedTable(n, kind) : n \in SeedSizes, kind \in {"distinct", "ties"}}

NoCall == [op |-> "none"]
NoResult == [op |-> "none"]

(***************************************************************************)
(* The /api/scrape route (POST).                                           *)
(***************************************************************************)
MaxRequests == 2                \* requests sent in one behaviour

\* Number.prototype.toString() of a natural number: its decimal digits.
NumberToString(n) == ToString(n)

\* A request body: text that is not JSON, or a JSON object, a function from
\* the keys it holds to their values. A key it lacks reads as undefined.
StartDates == {DateSeq[1]}      \* the start dates a client picks
EndDates == {DateSeq[Len(DateSeq)]}
NoFields == [k \in {} |-> NoValue]
StringField(k, values) == {NoFields} \cup {(k :> v) : v \in values}
NumberField(k, values) == {NoFields} \cup {(k :> v) : v \in values}
Objects ==
    {sd @@ ed @@ perDay @@ total :
        sd \in StringField("startDate", StartDates \cup {""}),
        ed \in StringField("endDate", EndDates \cup {""}),
        perDay \in NumberField("maxProductsPerDay", {20}),
        total \in NumberField("maxTotalProducts", {100})}
InvalidJson == [json |-> FALSE, object |-> NoFields]
Bodies == {InvalidJson} \cup {[json |-> TRUE, object |-> o] : o \in Objects}

Has(object, k) == k \in DOMAIN object
\* !x for a string field x
Falsy(object, k) == ~Has(object, k) \/ object[k] = ""

Success == [status |-> 200, success |-> TRUE, message |-> "Scraping process started"]
BadRequest == [status |-> 400, error |-> "Start date and end date are required"]
ServerError == [status |-> 500, error |-> "Failed to start scraping process"]

ScraperPath == "../backend/scraper.py"

SpawnArgs_LimitsSwapped(object) ==
    <<ScraperPath,
      "--start-date", object.startDate,
      "--end-date", object.endDate,
      "--max-products-per-day", NumberToString(object.maxTotalProducts),
      "--max-total-products", NumberToString(object.maxProductsPerDay)>>

\* The arguments the handler passes to spawn.
SpawnArgs(object) ==
    <<ScraperPath,
      "--start-date", object.startDate,
      "--end-date", object.endDate,
      "--max-products-per-day", NumberToString(object.maxProductsPerDay),
      "--max-total-products", NumberToString(object.maxTotalProducts)>>

\* What the handler does with a body: the response it returns and the
\* argument lists it spawns a subprocess with (none or one). req.json()
\* throws on text that is not JSON, and x.toString() throws on a missing x
\* while the argument list is built, before spawn is called.
POST_SpawnBeforeValidate(body) ==
    IF ~body.json
    THEN [response |-> ServerError, spawn |-> <<>>]
    ELSE IF ~Has(body.object, "maxProductsPerDay") \/ ~Has(body.object, "maxTotalProducts")
    THEN [response |-> ServerError, spawn |-> <<>>]
    ELSE IF Falsy(body.object, "startDate") \/ Falsy(body.object, "endDate")
    THEN [response |-> BadRequest,
          spawn |-> <<SpawnArgs(body.object @@ [startDate |-> "", endDate |-> ""])>>]
    ELSE [response |-> Success, spawn |-> <<SpawnArgs(body.object)>>]

POST_SuccessWithoutSpawn(body) ==
    IF ~body.json
    THEN [response |-> ServerError, spawn |-> <<>>]
    ELSE IF Falsy(body.object, "startDate") \/ Falsy(body.object, "endDate")
    THEN [response |-> BadRequest, spawn |-> <<>>]
    ELSE IF ~Has(body.object, "maxProductsPerDay") \/ ~Has(body.object, "maxTotalProducts")
    THEN [response |-> Success, spawn |-> <<>>]
    ELSE [response |-> Success, spawn |-> <<SpawnArgs(body.object)>>]

POST_Handler(body) ==
    IF ~body.json
    THEN [response |-> ServerError, spawn |-> <<>>]
    ELSE IF Falsy(body.object, "startDate") \/ Falsy(body.object, "endDate")
    THEN [response |-> BadRequest, spawn |-> <<>>]
    ELSE IF ~Has(body.object, "maxProductsPerDay") \/ ~Has(body.object, "maxTotalProducts")
    THEN [response |-> ServerError, spawn |-> <<>>]
    ELSE [response |-> Success, spawn |-> <<SpawnArgs(body.object)>>]

\* A subprocess just spawned: running, its arguments not yet read.
Spawned(rid, args) ==
    [rid |-> rid, args |-> args, pc |-> "spawned", todo |-> <<>>, rejected |-> FALSE]

\* The handler runs once for a request: it answers, and starts the subprocess
\* without waiting for it.
POST(req) ==
    /\ req \in requests
    /\ \A r \in responses : r.rid # req.rid
    /\ LET out == POST_Handler(req.body)
       IN /\ responses' = responses \cup {[rid |-> req.rid] @@ out.response}
          /\ procs' = procs \o [i \in 1..Len(out.spawn) |-> Spawned(req.rid, out.spawn[i])]
    /\ UNCHANGED <<table, queryVars, requests, nextRid, homeVars>>

\* Some client posts a body to the route.
ClientPost(body) ==
    /\ nextRid <= MaxRequests
    /\ requests' = requests \cup {[rid |-> nextRid, body |-> body, from |-> "client"]}
    /\ nextRid' = nextRid + 1
    /\ UNCHANGED <<table, queryVars, responses, procs, homeVars>>

ServerIdle ==
    /\ requests = {}
    /\ responses = {}
    /\ procs = <<>>
    /\ nextRid = 1

(***************************************************************************)
(* The scraper subprocess (backend/scraper.py), from README.md: it fetches *)
(* the products of each date of its range from the external API and stores *)
(* them, checking whether a product already exists before inserting it.    *)
(* The table's primary key is id, so the database rejects an insert of an  *)
(* id that is present.                                                      *)
(***************************************************************************)
MaxArgNumber == 100             \* the numbers the argument parser is given

\* The external API's products of a date, by votes.
ApiProducts(date) ==
    IF date = DateSeq[1] THEN <<Product(201, 200, date)>> ELSE <<Product(202, 0, date)>>

ParseNumber(text) == CHOOSE n \in 0..MaxArgNumber : NumberToString(n) = text
DateIndex(date) == CHOOSE i \in 1..Len(DateSeq) : DateSeq[i] = date

RECURSIVE Flatten(_)
Flatten(ss) == IF ss = <<>> THEN <<>> ELSE Head(ss) \o Flatten(Tail(ss))

\* The products a run stores, from its command line.
ScrapeList(args) ==
    LET start_date == args[3]
        end_date == args[5]
        perDay == ParseNumber(args[7])
        total == ParseNumber(args[9])
        days == SelectSeq(DateSeq, LAMBDA d : /\ DateIndex(start_date) <= DateIndex(d)
                                             /\ DateIndex(d) <= DateIndex(end_date))
    IN Limit(Flatten([i \in 1..Len(days) |-> Limit(ApiProducts(days[i]), perDay)]), total)

SetProc(i, proc) == procs' = [procs EXCEPT ![i] = proc]
After(todo) == IF todo = <<>> THEN "exited" ELSE "check"

ScraperStart(i) ==
    /\ procs[i].pc = "spawned"
    /\ LET todo == ScrapeList(procs[i].args)
       IN SetProc(i, [procs[i] EXCEPT !.todo = todo, !.pc = After(todo)])
    /\ UNCHANGED <<table, queryVars, requests, responses, nextRid, homeVars>>

\* The existence check: a product found in the table is skipped.
ScraperCheck(i) ==
    /\ procs[i].pc = "check"
    /\ LET todo == procs[i].todo
       IN IF \E r \in table : r.id = Head(todo).id
          THEN SetProc(i, [procs[i] EXCEPT !.todo = Tail(todo), !.pc = After(Tail(todo))])
          ELSE SetProc(i, [procs[i] EXCEPT !.pc = "insert"])
    /\ UNCHANGED <<table, queryVars, requests, responses, nextRid, homeVars>>

\* The insert: rejected by the primary key when the id is present by now.
ScraperInsert(i) ==
    /\ procs[i].pc = "insert"
    /\ LET todo == procs[i].todo
           present == \E r \in table : r.id = Head(todo).id
       IN /\ table' = IF present THEN table ELSE table \cup {Head(todo)}
          /\ SetProc(i, [procs[i] EXCEPT !.todo = Tail(todo), !.pc = After(Tail(todo)),
                                         !.rejected = @ \/ present])
    /\ UNCHANGED <<queryVars, requests, responses, nextRid, homeVars>>

QueryIdle ==
    /\ call = NoCall
    /\ result = NoResult
    /\ fetched = <<>>

(***************************************************************************)
(* page.tsx: the paginated page (Home).                                    *)
(***************************************************************************)
MaxPage == 6                    \* the page numbers the user goes to
MaxLoads == 2                   \* loadProducts calls under way at once
MaxCounts == 1                  \* fetchTotalProductCount calls under way at once
MaxScrapes == 1                 \* scrape requests the page sends

Ellipsis == 0                   \* the entry '...' of the page-button list

\* useState: the values of the first render
HomeState ==
    /\ products = <<>>
    /\ startDate = ""
    /\ endDate = ""
    /\ isLoading = FALSE
    /\ message = ""
    /\ page = 1
    /\ totalPages = 1
    /\ showPageInput = FALSE
    /\ timers = 0

\* The page is not open.
HomeUnmounted ==
    /\ HomeState
    /\ loads = EmptyBag
    /\ counts = 0

\* After the first render both effects have run: loadProducts(1) and
\* fetchTotalProductCount() are under way.
HomeMounted ==
    /\ HomeState
    /\ loads = SetToBag({1})
    /\ counts = 1

\* loadProducts(pageNum) is called.
LoadStarted(pageNum) == loads (+) SetToBag({pageNum})

\* setPage(p): a changed page re-renders and runs the effect on [page],
\* which calls loadProducts(page).
SetPage(p) ==
    /\ p # page => BagCardinality(loads) < MaxLoads
    /\ page' = p
    /\ loads' = IF p # page THEN LoadStarted(p) ELSE loads

\* The rows of a loadProducts call arrive: setProducts(data), and the effect
\* on [products] calls fetchTotalProductCount().
loadProducts(pageNum, data) ==
    /\ BagIn(pageNum, loads)
    /\ products' = data
    /\ loads' = loads (-) SetToBag({pageNum})
    /\ counts' = Min(counts + 1, MaxCounts)
    /\ UNCHANGED <<table, serverVars, scrapeVars, page, totalPages, showPageInput>>

LoadProductsDone(pageNum) ==
    /\ \E error \in BOOLEAN : \E data \in fetchProductsPaginated(table, pageNum, PAGE_SIZE, error) :
          loadProducts(pageNum, data)
    /\ UNCHANGED queryVars

\* The count of a fetchTotalProductCount call arrives: setTotalPages.
setTotalPages(count) ==
    /\ counts > 0
    /\ totalPages' = TotalPagesFor(count)
    /\ counts' = counts - 1
    /\ UNCHANGED <<table, serverVars, scrapeVars, products, page, showPageInput, loads>>

CountDone ==
    /\ \E error \in BOOLEAN : setTotalPages(fetchTotalProductCount(table, error))
    /\ UNCHANGED queryVars

renderPagination_AlwaysWindow(pg, total) ==
    IF total <= 5 THEN [i \in 1..total |-> i]
    ELSE <<1, Ellipsis, pg - 1, pg, pg + 1, Ellipsis, total>>

\* The page-button list: page numbers and Ellipsis entries.
renderPagination(pg, total) ==
    IF total <= 5 THEN [i \in 1..total |-> i]
    ELSE IF pg <= 3 THEN <<1, 2, 3, Ellipsis, total>>
    ELSE IF pg >= total - 2 THEN <<1, Ellipsis, total - 2, total - 1, total>>
    ELSE <<1, Ellipsis, pg - 1, pg, pg + 1, Ellipsis, total>>

NavFrame == UNCHANGED <<table, queryVars, serverVars, scrapeVars, products, totalPages, counts>>

\* The '<' button, disabled on page 1.
ClickPrevious ==
    /\ page # 1
    /\ SetPage(page - 1)
    /\ UNCHANGED showPageInput
    /\ NavFrame

\* The '>' button, disabled on the last page.
ClickNext ==
    /\ page # totalPages
    /\ page + 1 <= MaxPage
    /\ SetPage(page + 1)
    /\ UNCHANGED showPageInput
    /\ NavFrame

\* A page-number button.
ClickPageNumber(i) ==
    /\ i \in 1..Len(renderPagination(page, totalPages))
    /\ renderPagination(page, totalPages)[i] # Ellipsis
    /\ SetPage(renderPagination(page, totalPages)[i])
    /\ UNCHANGED showPageInput
    /\ NavFrame

\* An ellipsis opens the page input.
ClickEllipsis ==
    /\ \E i \in 1..Len(renderPagination(page, totalPages)) :
          renderPagination(page, totalPages)[i] = Ellipsis
    /\ showPageInput' = TRUE
    /\ UNCHANGED <<page, loads>>
    /\ NavFrame

\* Enter in the page input with the number val typed.
PageInputEnter(val) ==
    /\ showPageInput
    /\ IF val >= 1 /\ val <= totalPages THEN SetPage(val) ELSE UNCHANGED <<page, loads>>
    /\ showPageInput' = FALSE
    /\ NavFrame

\* Escape in the page input, or the input loses the focus.
PageInputClose ==
    /\ showPageInput
    /\ showPageInput' = FALSE
    /\ UNCHANGED <<page, loads>>
    /\ NavFrame

\* The date inputs.
SetStartDate_Filtering(d) ==
    /\ startDate' = d
    /\ products' = SelectSeq(products, LAMBDA r : r.launch_date = d)
    /\ UNCHANGED <<table, queryVars, serverVars, page, totalPages, showPageInput, loads, counts,
                   endDate, isLoading, message, timers>>

SetStartDate(d) ==
    /\ startDate' = d
    /\ UNCHANGED <<table, queryVars, serverVars, navVars, endDate, isLoading, message, timers>>

SetEndDate(d) ==
    /\ endDate' = d
    /\ UNCHANGED <<table, queryVars, serverVars, navVars, startDate, isLoading, message, timers>>

\* JSON.stringify({ startDate, endDate, maxProductsPerDay: 20, maxTotalProducts: 100 })
ScrapeBody ==
    [json |-> TRUE,
     object |-> [startDate |-> startDate, endDate |-> endDate,
                 maxProductsPerDay |-> 20, maxTotalProducts |-> 100]]

handleScrape_NoValidation ==
    /\ ~isLoading
    /\ nextRid <= MaxRequests
    /\ isLoading' = TRUE
    /\ message' = ""
    /\ requests' = requests \cup {[rid |-> nextRid, body |-> ScrapeBody, from |-> "page"]}
    /\ nextRid' = nextRid + 1
    /\ UNCHANGED <<table, queryVars, responses, procs, navVars, startDate, endDate, timers>>

\* The 'Scrape Products' button (disabled while isLoading), up to the await of
\* fetch.
handleScrape ==
    /\ ~isLoading
    /\ IF startDate = "" \/ endDate = ""
       THEN /\ message' = "Please select both start and end dates"
            /\ UNCHANGED <<isLoading, requests, nextRid>>
       ELSE /\ nextRid <= MaxRequests
            /\ isLoading' = TRUE
            /\ message' = ""
            /\ requests' = requests \cup {[rid |-> nextRid, body |-> ScrapeBody, from |-> "page"]}
            /\ nextRid' = nextRid + 1
    /\ UNCHANGED <<table, queryVars, responses, procs, navVars, startDate, endDate, timers>>

\* result.message || 'Scraping started'
MessageOf(response) ==
    IF "message" \in DOMAIN response THEN response.message ELSE "Scraping started"

\* The route's response arrives: the rest of the try block, then finally.
ScrapeResponse(req) ==
    /\ req \in requests /\ req.from = "page"
    /\ \E r \in responses :
          /\ r.rid = req.rid
          /\ message' = MessageOf(r)
          /\ responses' = responses \ {r}
    /\ timers' = timers + 1
    /\ SetPage(1)
    /\ isLoading' = FALSE
    /\ requests' = requests \ {req}
    /\ UNCHANGED <<table, queryVars, procs, nextRid, products, totalPages, showPageInput,
                   counts, startDate, endDate>>

ScrapeFails_StaysLoading(req) ==
    /\ req \in requests /\ req.from = "page"
    /\ message' = "Error starting scraping process"
    /\ requests' = requests \ {req}
    /\ responses' = {r \in responses : r.rid # req.rid}
    /\ UNCHANGED <<table, queryVars, procs, nextRid, navVars, startDate, endDate, timers, isLoading>>

\* fetch rejects (the connection fails): the catch block, then finally.
ScrapeFails(req) ==
    /\ req \in requests /\ req.from = "page"
    /\ message' = "Error starting scraping process"
    /\ isLoading' = FALSE
    /\ requests' = requests \ {req}
    /\ responses' = {r \in responses : r.rid # req.rid}
    /\ UNCHANGED <<table, queryVars, procs, nextRid, navVars, startDate, endDate, timers>>

\* The callback of setTimeout(() => loadProducts(1), 2000) runs.
TimerFires ==
    /\ timers > 0
    /\ BagCardinality(loads) < MaxLoads
    /\ timers' = timers - 1
    /\ loads' = LoadStarted(1)
    /\ UNCHANGED <<table, queryVars, serverVars, products, page, totalPages, showPageInput,
                   counts, startDate, endDate, isLoading, message>>

(***************************************************************************)
(* SpecPage: the page over a stored table, with the route and the scraper  *)
(* behind its 'Scrape Products' button.                                    *)
(***************************************************************************)
HomeTables == {SeedTable(PAGE_SIZE, "distinct")}

InitPage ==
    /\ table \in HomeTables
    /\ QueryIdle
    /\ ServerIdle
    /\ HomeMounted

NextPage ==
    \/ \E p \in DOMAIN loads : LoadProductsDone(p)
    \/ CountDone
    \/ ClickPrevious
    \/ ClickNext
    \/ \E i \in 1..7 : ClickPageNumber(i)
    \/ \E d \in StartDates \cup {""} : SetStartDate(d)
    \/ \E d \in Dates \cup {""} : SetEndDate(d)
    \/ (startDate # "" /\ endDate # "" => nextRid <= MaxScrapes) /\ handleScrape
    \/ \E req \in requests : ScrapeResponse(req)
    \/ \E req \in requests : ScrapeFails(req)
    \/ TimerFires
    \/ \E req \in requests : POST(req)
    \/ \E i \in 1..Len(procs) : ScraperStart(i)
    \/ \E i \in 1..Len(procs) : ScraperCheck(i)
    \/ \E i \in 1..Len(procs) : ScraperInsert(i)

SpecPage == InitPage /\ [][NextPage]_vars

\* The row's launch date lies between the two dates entered.
DateInRange(r) ==
    /\ r.launch_date \in Dates
    /\ DateIndex(startDate) <= DateIndex(r.launch_date)
    /\ DateIndex(r.launch_date) <= DateIndex(endDate)

Quiet == loads = EmptyBag /\ counts = 0 /\ timers = 0 /\ ~isLoading

\* C5 as stated: the table is filtered by the date range, that is, once both
\* dates are entered and every load has ended, each row displayed has its
\* launch date in the range.
C5_FilteredByDateRange ==
    (startDate # "" /\ endDate # "" /\ Quiet) =>
        \A i \in 1..Len(products) : DateInRange(products[i])

C5_Step ==
    /\ (startDate' # startDate \/ endDate' # endDate) =>
          /\ products' = products
          /\ loads' = loads /\ counts' = counts
          /\ requests' = requests
    /\ products' # products =>
          \E p \in DOMAIN loads :
              products' \in fetchProductsPaginated(table, p, PAGE_SIZE, FALSE) \cup {<<>>}
    /\ \A req \in requests' \ requests :
          /\ req.body.object.startDate = startDate
          /\ req.body.object.endDate = endDate

\* C5 (amended): the date range is no filter of the table. Entering a date
\* changes no row displayed and starts no load; the rows displayed are only
\* ever replaced by a page of all stored rows (or by no rows, on an error);
\* the two dates only travel in the body of the scrape request.
C5_DatesOnlyInScrapeRequest == [][C5_Step]_vars

\* Both dates are entered, a scrape request was sent with them, every load has
\* ended, and a row outside the range is displayed.
C5_Witness ==
    /\ startDate # "" /\ endDate # ""
    /\ nextRid > 1
    /\ Quiet
    /\ \E i \in 1..Len(products) : ~DateInRange(products[i])

\* The rows of page q of the stored table, in each order the database may
\* give rows of equal upvotes.
PageOf(q) == fetchProductsPaginated(table, q, PAGE_SIZE, FALSE)

\* C11: once no page fetch is outstanding and no reload timer is pending, the
\* rows displayed are not those of a page q other than the current page.
C11_ShowsCurrentPage ==
    (loads = EmptyBag /\ timers = 0) =>
        ~ \E q \in 1..MaxPage :
            /\ q # page
            /\ products # <<>>
            /\ products \in PageOf(q)
            /\ products \notin PageOf(page)

\* The route answered the page's scrape request and every subprocess has
\* stored its rows and exited.
ScrapeFinished ==
    /\ message = "Scraping process started"
    /\ procs # <<>>
    /\ \A i \in 1..Len(procs) : procs[i].pc = "exited"

\* Nothing is left that runs without the user: no fetch under way, no timer
\* pending, no request open.
Settled == Quiet /\ requests = {} /\ responses = {}

\* C12: after a scrape the route answered, once the subprocess has finished
\* writing rows and the scheduled reload and every fetch have ended, the
\* page, still on page 1, displays the stored rows of page 1 (or no rows,
\* when the reload's fetch failed).
C12_ReloadShowsResult ==
    (ScrapeFinished /\ Settled /\ page = 1) =>
        (products = <<>> \/ products \in PageOf(1))

(***************************************************************************)
(* SpecScrape: the page's 'Scrape Products' button with the route behind   *)
(* it, up to the start of the subprocesses, the user staying on the page   *)
(* shown.                                                                  *)
(***************************************************************************)
NextScrape ==
    \/ \E d \in StartDates \cup {""} : SetStartDate(d)
    \/ \E d \in EndDates \cup {""} : SetEndDate(d)
    \/ handleScrape
    \/ \E req \in requests : ScrapeResponse(req)
    \/ \E req \in requests : ScrapeFails(req)
    \/ TimerFires
    \/ \E p \in DOMAIN loads : LoadProductsDone(p)
    \/ CountDone
    \/ \E req \in requests : POST(req)

SpecScrape == InitPage /\ [][NextScrape]_vars

PleaseSelect == "Please select both start and end dates"

C15_Step ==
    (handleScrape /\ (startDate = "" \/ endDate = "")) =>
        /\ message' = PleaseSelect
        /\ requests' = requests /\ nextRid' = nextRid
        /\ isLoading' = isLoading
        /\ page' = page /\ loads' = loads
        /\ products' = products

\* C15: a click on the scrape button with startDate or endDate empty sets
\* the message 'Please select both start and end dates', sends no request and
\* leaves isLoading, page and the rows displayed unchanged.
C15_EmptyDateClick == [][C15_Step]_vars

\* The message is shown over displayed rows, no request having been sent.
C15_Witness ==
    /\ message = PleaseSelect
    /\ products # <<>>
    /\ requests = {} /\ nextRid = 1
    /\ ~isLoading

\* The scrape requests of the page that are in flight.
InFlight == {req \in requests : req.from = "page"}

\* C16: isLoading is true exactly while a scrape request of the page is in
\* flight, and the page never has more than one in flight.
C16_OneRequestInFlight ==
    /\ isLoading <=> InFlight # {}
    /\ Cardinality(InFlight) <= 1

\* A second request is in flight after the first one failed.
C16_Witness ==
    /\ isLoading
    /\ nextRid > 2
    /\ Cardinality(InFlight) = 1

(***************************************************************************)
(* SpecNav: the page's navigation over stored tables of one page and of    *)
(* MaxPage pages.                                                          *)
(***************************************************************************)
NavTables == {SeedTable(n, "distinct") : n \in {1, (MaxPage - 1) * PAGE_SIZE + 1}}

InitNav ==
    /\ table \in NavTables
    /\ QueryIdle
    /\ ServerIdle
    /\ HomeMounted

NextNav ==
    \/ \E p \in DOMAIN loads : LoadProductsDone(p)
    \/ CountDone
    \/ ClickPrevious
    \/ ClickNext
    \/ \E i \in 1..7 : ClickPageNumber(i)
    \/ ClickEllipsis
    \/ \E val \in 0..(MaxPage + 1) : PageInputEnter(val)
    \/ PageInputClose

SpecNav == InitNav /\ [][NextNav]_vars

\* C10: in every reachable state of the page, 1 <= page <= totalPages.
C10_PageInRange == 1 <= page /\ page <= totalPages

(***************************************************************************)
(* SpecRoute: clients post any bodies to the route; the subprocesses it    *)
(* starts run concurrently.                                                *)
(***************************************************************************)
InitRoute ==
    /\ table = {}
    /\ QueryIdle
    /\ ServerIdle
    /\ HomeUnmounted

NextRoute ==
    \/ \E body \in Bodies : ClientPost(body)
    \/ \E req \in requests : POST(req)
    \/ \E i \in 1..Len(procs) : ScraperStart(i)
    \/ \E i \in 1..Len(procs) : ScraperCheck(i)
    \/ \E i \in 1..Len(procs) : ScraperInsert(i)

SpecRoute == InitRoute /\ [][NextRoute]_vars

ResponsesTo(rid) == {r \in responses : r.rid = rid}
ProcsOf(ps, rid) == {i \in 1..Len(ps) : ps[i].rid = rid}
Answer(rid, response) == [rid |-> rid] @@ response

HasDates(body) ==
    body.json /\ ~Falsy(body.object, "startDate") /\ ~Falsy(body.object, "endDate")
HasLimits(body) ==
    body.json /\ Has(body.object, "maxProductsPerDay") /\ Has(body.object, "maxTotalProducts")

\* The step in which the handler answers req.
Answers(req) == ResponsesTo(req.rid) = {} /\ ResponsesTo(req.rid)' # {}

\* C1: the step that answers a POST whose body has both dates non-empty and
\* both max fields returns the success response and spawns exactly one
\* subprocess, whose command line carries --start-date, --end-date,
\* --max-products-per-day and --max-total-products with the request's values;
\* the subprocess has not exited when the response is returned.
C1_Step ==
    \A req \in requests :
        (Answers(req) /\ HasDates(req.body) /\ HasLimits(req.body)) =>
            /\ ResponsesTo(req.rid)' = {Answer(req.rid, Success)}
            /\ Len(procs') = Len(procs) + 1
            /\ ProcsOf(procs', req.rid) = {Len(procs')}
            /\ LET proc == procs'[Len(procs')]
                   args == proc.args
               IN /\ proc.pc # "exited"
                  /\ Len(args) = 9
                  /\ args[2] = "--start-date" /\ args[3] = req.body.object.startDate
                  /\ args[4] = "--end-date" /\ args[5] = req.body.object.endDate
                  /\ args[6] = "--max-products-per-day"
                  /\ ParseNumber(args[7]) = req.body.object.maxProductsPerDay
                  /\ args[8] = "--max-total-products"
                  /\ ParseNumber(args[9]) = req.body.object.maxTotalProducts
C1_SpawnAndAnswer == [][C1_Step]_vars

\* C1 witness: a request with two different dates and both limits has its
\* success response while its subprocess is still running.
C1_Witness ==
    \E req \in requests :
        /\ HasDates(req.body) /\ HasLimits(req.body)
        /\ req.body.object.startDate # req.body.object.endDate
        /\ Answer(req.rid, Success) \in responses
        /\ \E i \in ProcsOf(procs, req.rid) : procs[i].pc = "insert"

\* C2: the step that answers a POST whose JSON body lacks startDate or
\* endDate (missing or empty) returns status 400 with the error 'Start date
\* and end date are required' and spawns nothing.
C2_Step ==
    \A req \in requests :
        (Answers(req) /\ req.body.json /\ ~HasDates(req.body)) =>
            /\ ResponsesTo(req.rid)' =
                  {[rid |-> req.rid, status |-> 400,
                    error |-> "Start date and end date are required"]}
            /\ procs' = procs
C2_MissingDate == [][C2_Step]_vars

\* C2 witness: a request with both limits, a start date and an empty end date
\* was answered 400 and no subprocess runs.
C2_Witness ==
    \E req \in requests :
        /\ HasLimits(req.body)
        /\ Has(req.body.object, "startDate") /\ req.body.object.startDate # ""
        /\ Has(req.body.object, "endDate") /\ req.body.object.endDate = ""
        /\ \E r \in ResponsesTo(req.rid) : r.status = 400
        /\ procs = <<>>

\* C3: a POST gets one response, which is the 400 response when its JSON
\* body lacks a date, the 500 response 'Failed to start scraping process'
\* when the body is not JSON or has both dates but lacks a max field, and the
\* success response otherwise; a success response comes with exactly one
\* subprocess spawned for the request, a 400 or 500 response with none.
C3_Responses ==
    \A req \in requests :
        /\ Cardinality(ResponsesTo(req.rid)) <= 1
        /\ \A r \in ResponsesTo(req.rid) :
              /\ r = Answer(req.rid,
                      IF req.body.json /\ ~HasDates(req.body) THEN BadRequest
                      ELSE IF ~req.body.json \/ ~HasLimits(req.body) THEN ServerError
                      ELSE Success)
              /\ r.status = 200 => Cardinality(ProcsOf(procs, req.rid)) = 1
              /\ r.status \in {400, 500} => ProcsOf(procs, req.rid) = {}
        /\ ResponsesTo(req.rid) = {} => ProcsOf(procs, req.rid) = {}

\* C3 witness: a body with both dates and no maxTotalProducts was answered
\* 500, and another request was answered with success and has its subprocess.
C3_Witness ==
    \E req, other \in requests :
        /\ HasDates(req.body)
        /\ Has(req.body.object, "maxProductsPerDay")
        /\ ~Has(req.body.object, "maxTotalProducts")
        /\ Answer(req.rid, ServerError) \in responses
        /\ Answer(other.rid, Success) \in responses
        /\ ProcsOf(procs, other.rid) # {}

InitPaging ==
    /\ table \in SeedTables
    /\ call = NoCall
    /\ result = NoResult
    /\ fetched = <<>>
    /\ ServerIdle
    /\ HomeUnmounted

\* One page of the sweep: any page up to one past the last.
FetchPage(p) ==
    /\ p \notin DOMAIN fetched
    /\ \E error \in BOOLEAN : \E v \in fetchProductsPaginated(table, p, PAGE_SIZE, error) :
          fetched' = fetched @@ (p :> [error |-> error, rows |-> v])
    /\ UNCHANGED <<table, call, result, serverVars, homeVars>>

NextPaging == \E p \in 1..(TotalPagesFor(Cardinality(table)) + 1) : FetchPage(p)

SpecPaging == InitPaging /\ [][NextPaging]_vars

\* The rank of a row: the number of rows with more upvotes.
Rank(tbl, r) == Cardinality({q \in tbl : q.upvotes > r.upvotes})
TotallyOrdered(tbl) == \A r, q \in tbl : r.upvotes = q.upvotes => r = q
Answered(p) == p \in DOMAIN fetched /\ ~fetched[p].error
RECURSIVE Concat(_, _)
Concat(f, n) == IF n = 0 THEN <<>> ELSE Concat(f, n - 1) \o f[n].rows

\* C4: over an unchanging table whose rows all differ in upvotes, a page p
\* the backend answers holds exactly the rows of ranks (p-1)*20 .. p*20-1, in
\* rank order (fewer on the last page, none past it); so the pages 1..totalPages
\* are pairwise disjoint and their concatenation is the whole table in
\* descending upvotes order.
C4_Pages ==
    TotallyOrdered(table) =>
        LET n == Cardinality(table)
            last == TotalPagesFor(n)
        IN /\ \A p \in DOMAIN fetched : ~fetched[p].error =>
                 LET rows == fetched[p].rows
                 IN /\ Len(rows) = Max(0, Min(n, p * 20) - (p - 1) * 20)
                    /\ \A i \in 1..Len(rows) :
                          rows[i] \in table /\ Rank(table, rows[i]) = (p - 1) * 20 + i - 1
           /\ \A p, q \in DOMAIN fetched : (Answered(p) /\ Answered(q) /\ p # q) =>
                 SeqToSet(fetched[p].rows) \cap SeqToSet(fetched[q].rows) = {}
           /\ (\A p \in 1..last : Answered(p)) =>
                 LET all == Concat(fetched, last)
                 IN /\ Len(all) = n
                    /\ SeqToSet(all) = table
                    /\ \A i \in 1..(n - 1) : all[i].upvotes > all[i + 1].upvotes

\* C4 witness: a table of three pages, the last one short, swept completely
\* and past its end.
C4_Witness ==
    /\ TotallyOrdered(table)
    /\ TotalPagesFor(Cardinality(table)) = 3
    /\ \A p \in 1..4 : Answered(p)
    /\ Len(fetched[3].rows) = 1
    /\ fetched[4].rows = <<>>

(***************************************************************************)
(* SpecQuery: the read functions of supabase.ts over the small tables.     *)
(***************************************************************************)
Invoke(op, arg) == [op |-> op, arg |-> arg]
Call(op, arg, error, value) == [op |-> op, arg |-> arg, error |-> error, value |-> value]

Queries == {<<"b">>, <<"A", "B">>}

\* The calls a caller may make.
QueryCalls ==
    {Invoke("getTopProducts", limit) : limit \in 0..MaxLimit}
    \cup {Invoke("getProductById", id) : id \in Ids}
    \cup {Invoke("getProductsByDate", date) : date \in Dates}
    \cup {Invoke("searchProducts", query) : query \in Queries}

InitQuery ==
    /\ table \in SmallTables
    /\ call \in QueryCalls
    /\ result = NoResult
    /\ fetched = <<>>
    /\ ServerIdle
    /\ HomeUnmounted

\* One call of a read function: the backend answers or reports an error, and
\* the function returns.
GetTopProducts ==
    /\ call.op = "getTopProducts"
    /\ \E error \in BOOLEAN : \E v \in getTopProducts(table, call.arg, error) :
          result' = Call(call.op, call.arg, error, v)
    /\ call' = NoCall
    /\ UNCHANGED <<table, fetched, serverVars, homeVars>>

GetProductById ==
    /\ call.op = "getProductById"
    /\ \E error \in BOOLEAN : \E v \in getProductById(table, call.arg, error) :
          result' = Call(call.op, call.arg, error, v)
    /\ call' = NoCall
    /\ UNCHANGED <<table, fetched, serverVars, homeVars>>

GetProductsByDate ==
    /\ call.op = "getProductsByDate"
    /\ \E error \in BOOLEAN : \E v \in getProductsByDate(table, call.arg, error) :
          result' = Call(call.op, call.arg, error, v)
    /\ call' = NoCall
    /\ UNCHANGED <<table, fetched, serverVars, homeVars>>

SearchProducts ==
    /\ call.op = "searchProducts"
    /\ \E error \in BOOLEAN : \E v \in searchProducts(table, call.arg, error) :
          result' = Call(call.op, call.arg, error, v)
    /\ call' = NoCall
    /\ UNCHANGED <<table, fetched, serverVars, homeVars>>

NextQuery == GetTopProducts \/ GetProductById \/ GetProductsByDate \/ SearchProducts

SpecQuery == InitQuery /\ [][NextQuery]_vars

NonIncreasing(s) == \A i \in 1..(Len(s) - 1) : s[i].upvotes >= s[i + 1].upvotes
NoRepeats(s) == \A i, j \in 1..Len(s) : s[i] = s[j] => i = j

\* C7: getTopProducts(limit) returns at most limit rows of the table, none
\* twice, in non-increasing upvotes order, and every stored row it does not
\* return has upvotes <= every returned row; when the backend answers, it
\* returns min(limit, number of rows) rows: the top-limit rows by votes.
C7_TopProducts ==
    result.op = "getTopProducts" =>
        /\ Len(result.value) <= result.arg
        /\ SeqToSet(result.value) \subseteq table
        /\ NoRepeats(result.value)
        /\ NonIncreasing(result.value)
        /\ \A r \in table \ SeqToSet(result.value) :
              \A i \in 1..Len(result.value) : r.upvotes <= result.value[i].upvotes
        /\ ~result.error => Len(result.value) = Min(result.arg, Cardinality(table))

\* C7 witness: a call that cut a table with tied upvotes at the limit, leaving
\* out a row tied with the last one returned.
C7_Witness ==
    /\ result.op = "getTopProducts"
    /\ ~result.error
    /\ Len(result.value) = 2
    /\ \E r \in table \ SeqToSet(result.value) : r.upvotes = result.value[2].upvotes
    /\ result.value[1].upvotes > result.value[2].upvotes

\* C8: when the backend answers, getProductsByDate(date) returns exactly the
\* stored rows whose launch_date equals date, each once, in non-increasing
\* upvotes order.
C8_ProductsByDate ==
    (result.op = "getProductsByDate" /\ ~result.error) =>
        /\ SeqToSet(result.value) = {r \in table : r.launch_date = result.arg}
        /\ NoRepeats(result.value)
        /\ NonIncreasing(result.value)

\* C8 witness: a call that returned two rows and left out a row of another
\* date and a row without a date.
C8_Witness ==
    /\ result.op = "getProductsByDate"
    /\ ~result.error
    /\ Len(result.value) = 2
    /\ \E r \in table : r.launch_date \in Dates \ {result.arg}

(***************************************************************************)
(* SpecReads: every read function, with each return value recorded: one    *)
(* call of a read of supabase.ts (product-hunt-frontend), or the page      *)
(* (frontend) whose effects call the two reads of page.tsx.                *)
(***************************************************************************)
ReadTables == {SeedTable(n, "ties") : n \in {0, PAGE_SIZE, PAGE_SIZE + 1}}

InitReads ==
    /\ table \in ReadTables
    /\ \/ call \in QueryCalls /\ HomeUnmounted
       \/ call = NoCall /\ HomeMounted
    /\ result = NoResult
    /\ fetched = <<>>
    /\ ServerIdle

LoadProductsRead(pageNum) ==
    /\ \E error \in BOOLEAN : \E data \in fetchProductsPaginated(table, pageNum, PAGE_SIZE, error) :
          /\ loadProducts(pageNum, data)
          /\ result' = Call("fetchProductsPaginated", pageNum, error, data)
    /\ UNCHANGED <<call, fetched>>

CountRead ==
    /\ \E error \in BOOLEAN :
          /\ setTotalPages(fetchTotalProductCount(table, error))
          /\ result' = Call("fetchTotalProductCount", 0, error, fetchTotalProductCount(table, error))
    /\ UNCHANGED <<call, fetched>>

NextReads ==
    \/ GetTopProducts
    \/ GetProductById
    \/ GetProductsByDate
    \/ SearchProducts
    \/ \E p \in DOMAIN loads : LoadProductsRead(p)
    \/ CountRead
    \/ ClickPrevious
    \/ ClickNext

SpecReads == InitReads /\ [][NextReads]_vars

ArrayReads == {"getTopProducts", "getProductsByDate", "searchProducts", "fetchProductsPaginated"}

\* C9: a read whose backend call reports an error returns the empty value of
\* its type: [] from the array reads, null from getProductById (also when no
\* row has the id), 0 from the count; on the page the failed count leaves
\* totalPages at 1 and the failed page fetch leaves no rows displayed.
C9_EmptyOnError ==
    /\ result.op \in ArrayReads /\ result.error => result.value = <<>>
    /\ result.op = "getProductById" /\ (result.error \/ \A r \in table : r.id # result.arg)
          => result.value = NoValue
    /\ result.op = "getProductById" /\ ~result.error /\ (\E r \in table : r.id = result.arg)
          => result.value \in table /\ result.value.id = result.arg
    /\ result.op = "fetchTotalProductCount" /\ result.error
          => result.value = 0 /\ totalPages = 1
    /\ result.op = "fetchProductsPaginated" /\ result.error => products = <<>>

\* A count that fails after the page went to page 2 of a two-page table.
C9_Witness ==
    /\ result.op = "fetchTotalProductCount" /\ result.error
    /\ Cardinality(table) > PAGE_SIZE
    /\ page = 2
    /\ products # <<>>

\* C14: totalPages is max(1, ceil(count / 20)) for the count last fetched:
\* the least n >= 1 with n * 20 >= count. It is at least 1 in every state and
\* 1 for an empty table; when count > 0 is the number of stored rows, page
\* totalPages holds a row and the page after it holds none.
C14_TotalPages ==
    /\ totalPages >= 1
    /\ table = {} => totalPages = 1
    /\ result.op = "fetchTotalProductCount" =>
          LET count == result.value
          IN /\ totalPages * PAGE_SIZE >= count
             /\ totalPages > 1 => (totalPages - 1) * PAGE_SIZE < count
             /\ result.error => count = 0
             /\ ~result.error =>
                   /\ count = Cardinality(table)
                   /\ count > 0 => /\ <<>> \notin PageOf(totalPages)
                                   /\ PageOf(totalPages + 1) = {<<>>}

\* A count of 21 rows arrived: two pages.
C14_Witness ==
    /\ result.op = "fetchTotalProductCount" /\ ~result.error
    /\ result.value = PAGE_SIZE + 1
    /\ totalPages = 2

(***************************************************************************)
(* SpecPagination: renderPagination's page-button list for every page of   *)
(* every number of pages up to MaxTotalPages.                              *)
(***************************************************************************)
MaxTotalPages == 10

InitPagination ==
    /\ table = {}
    /\ call \in {Invoke("renderPagination", <<pg, total>>) :
                    pg \in 1..MaxTotalPages, total \in 1..MaxTotalPages}
    /\ call.arg[1] <= call.arg[2]
    /\ result = NoResult
    /\ fetched = <<>>
    /\ ServerIdle
    /\ HomeUnmounted

RenderPagination ==
    /\ call.op = "renderPagination"
    /\ result' = Call(call.op, call.arg, FALSE, renderPagination(call.arg[1], call.arg[2]))
    /\ call' = NoCall
    /\ UNCHANGED <<table, fetched, serverVars, homeVars>>

NextPagination == RenderPagination

SpecPagination == InitPagination /\ [][NextPagination]_vars

\* The page numbers of a page-button list, in its order.
Numbers(pages) == SelectSeq(pages, LAMBDA p : p # Ellipsis)

\* C13: for 1 <= page <= totalPages the page-button list is 1..totalPages
\* when totalPages <= 5; otherwise its numbers are strictly increasing, lie in
\* 1..totalPages and include 1, totalPages and the current page, and every
\* ellipsis sits between two listed numbers that differ by at least 2.
C13_PageButtons ==
    result.op = "renderPagination" =>
        LET pg == result.arg[1]
            total == result.arg[2]
            pages == result.value
            nums == Numbers(pages)
        IN IF total <= 5
           THEN /\ Len(pages) = total
                /\ \A i \in 1..total : pages[i] = i
           ELSE /\ \A i \in 1..(Len(nums) - 1) : nums[i] < nums[i + 1]
                /\ \A i \in 1..Len(nums) : nums[i] \in 1..total
                /\ {1, total, pg} \subseteq SeqToSet(nums)
                /\ \A i \in 1..Len(pages) :
                      pages[i] = Ellipsis =>
                          /\ 1 < i /\ i < Len(pages)
                          /\ pages[i - 1] # Ellipsis /\ pages[i + 1] # Ellipsis
                          /\ pages[i + 1] - pages[i - 1] >= 2

\* A list with two ellipses, the first standing for page 2 alone.
C13_Witness ==
    /\ result.op = "renderPagination"
    /\ Len(result.value) = 7
    /\ result.value[3] = 3

====
